---- MODULE Spec2Model ----
(***************************************************************************)
(* A model of homography-rs: the restriction generator (src/pairs.rs), the *)
(* system assembler and the SVD solver (src/functions.rs) and the          *)
(* HomographyComputation / HomographyRestrictions front end (src/lib.rs).  *)
(*                                                                         *)
(* Scalars are exact integers: every sum and product of the source is      *)
(* computed as written, on inputs small enough for f32 to be exact.        *)
(* A matrix is the sequence of its rows and a row the sequence of its      *)
(* entries, so entry (i, j) of the source (0-based) is m[i + 1][j + 1].    *)
(***************************************************************************)
EXTENDS Integers, Sequences, FiniteSets

VARIABLES
    pc,                     \* where the caller is in its script
    point_correspondences,  \* HomographyComputation.point_correspondences
    line_correspondences,   \* HomographyComputation.line_correspondences
    added,                  \* history: the correspondences in the order the caller added them
    restrictions,           \* HomographyRestrictions.restrictions, as get_restrictions returned it
    matrix,                 \* the design matrix compute built, or the one solve is given
    assembled,              \* what generate_matrix_from_correspondences returned
    last_column,            \* solve's local last_column: the selected row of v_t (a direction)
    solution,               \* what solve returned (or that it panicked)
    pair,                   \* the correspondence a generate_restriction call is made on
    restriction             \* what that generate_restriction call returned

vars == <<pc, point_correspondences, line_correspondences, added, restrictions,
          matrix, assembled, last_column, solution, pair, restriction>>

---------------------------------------------------------------------------
(* Bounds of the model.                                                    *)

\* the caller adds at most MaxN correspondences (2 * MaxN > 9: no padding)
MaxN == 5
\* coordinates of the points and lines generate_restriction is applied to
MaxCoord == 1
\* the nonzero scale factors s of "equal up to scale" range over -MaxScale..MaxScale
MaxScale == 2
\* solve is applied to matrices of 0..MaxRows rows
MaxRows == 10

\* the number of unknowns h11..h33: the 9 columns of every restriction
NumCols == 9

Max(a, b) == IF a >= b THEN a ELSE b
Min(a, b) == IF a <= b THEN a ELSE b

---------------------------------------------------------------------------
(* src/geo.rs                                                              *)

Point_new(x, y) == [x |-> x, y |-> y]

Line_new(a, b, c) == [a |-> a, b |-> b, c |-> c]

Line_from_points(p1, p2) ==
    LET a == p2.y - p1.y
        b == p1.x - p2.x
        c == (-a) * p1.x - b * p1.y
    IN  [a |-> a, b |-> b, c |-> c]

---------------------------------------------------------------------------
(* src/pairs.rs                                                            *)

PointPair(p1, p2) == [p1 |-> p1, p2 |-> p2]

LinePair(l1, l2) == [l1 |-> l1, l2 |-> l2]

\* Matrix2x9::from_rows: row i of the result is the i-th row given
from_rows(rows) == rows

\* a faulty variant: the last three entries of the first row multiply by p2.x, not p2.y
PointPair_generate_restriction_wrong_column(self) ==
    LET p1 == self.p1
        p2 == self.p2
        first_row ==
            << 0, 0, 0,
               -p1.x, -p1.y, -1,
               p1.x * p2.x, p1.y * p2.x, p2.x >>
        second_row ==
            << p1.x, p1.y, 1,
               0, 0, 0,
               (-p1.x) * p2.x, (-p1.y) * p2.x, -p2.x >>
    IN  from_rows(<<first_row, second_row>>)

PointPair_generate_restriction(self) ==
    LET p1 == self.p1
        p2 == self.p2
        first_row ==
            << 0, 0, 0,
               -p1.x, -p1.y, -1,
               p1.x * p2.y, p1.y * p2.y, p2.y >>
        second_row ==
            << p1.x, p1.y, 1,
               0, 0, 0,
               (-p1.x) * p2.x, (-p1.y) * p2.x, -p2.x >>
    IN  from_rows(<<first_row, second_row>>)

\* a faulty variant: the roles of l1 and l2 exchanged
LinePair_generate_restriction_swapped(self) ==
    LET l1 == self.l2
        l2 == self.l1
        first_row ==
            << 0, (-l1.c) * l2.a, l1.b * l2.a,
               0, (-l1.c) * l2.b, l1.b * l2.b,
               0, (-l1.c) * l2.c, l1.b * l2.c >>
        second_row ==
            << l1.c * l2.a, 0, (-l1.a) * l2.a,
               l1.c * l2.b, 0, (-l1.a) * l2.b,
               l1.c * l2.c, 0, (-l1.a) * l2.c >>
    IN  from_rows(<<first_row, second_row>>)

\* a faulty variant: the minus signs of the second row lost
LinePair_generate_restriction_unsigned(self) ==
    LET l1 == self.l1
        l2 == self.l2
        first_row ==
            << 0, (-l1.c) * l2.a, l1.b * l2.a,
               0, (-l1.c) * l2.b, l1.b * l2.b,
               0, (-l1.c) * l2.c, l1.b * l2.c >>
        second_row ==
            << l1.c * l2.a, 0, l1.a * l2.a,
               l1.c * l2.b, 0, l1.a * l2.b,
               l1.c * l2.c, 0, l1.a * l2.c >>
    IN  from_rows(<<first_row, second_row>>)

LinePair_generate_restriction(self) ==
    LET l1 == self.l1
        l2 == self.l2
        first_row ==
            << 0, (-l1.c) * l2.a, l1.b * l2.a,
               0, (-l1.c) * l2.b, l1.b * l2.b,
               0, (-l1.c) * l2.c, l1.b * l2.c >>
        second_row ==
            << l1.c * l2.a, 0, (-l1.a) * l2.a,
               l1.c * l2.b, 0, (-l1.a) * l2.b,
               l1.c * l2.c, 0, (-l1.a) * l2.c >>
    IN  from_rows(<<first_row, second_row>>)

\* a &dyn WithRestriction: the correspondence with its kind (the vtable)
PointCorrespondence(pp) == [kind |-> "point", pair |-> pp]
LineCorrespondence(lp) == [kind |-> "line", pair |-> lp]

\* WithRestriction::generate_restriction, dispatched on the kind
generate_restriction(c) ==
    IF c.kind = "point"
    THEN PointPair_generate_restriction(c.pair)
    ELSE LinePair_generate_restriction(c.pair)

---------------------------------------------------------------------------
(* nalgebra's DMatrix, as the source uses it                               *)

\* DMatrix::zeros(nrows, ncols)
zeros(r, c) == [i \in 1..r |-> [j \in 1..c |-> 0]]

nrows(m) == Len(m)

\* m.row(i), i counted from 0 as in the source
Row(m, i) == m[i + 1]

\* m.set_row(i, row), i counted from 0 as in the source
set_row(m, i, row) == [m EXCEPT ![i + 1] = row]

---------------------------------------------------------------------------
(* src/functions.rs: generate_matrix_from_correspondences                  *)

\* the loop of lines 18-21, from block i (counted from 0) on
RECURSIVE generate_matrix_loop(_, _, _)
generate_matrix_loop(m, matrixes, i) ==
    IF i >= Len(matrixes)
    THEN m
    ELSE generate_matrix_loop(
             set_row(set_row(m, i * 2, Row(matrixes[i + 1], 0)),
                     i * 2 + 1, Row(matrixes[i + 1], 1)),
             matrixes, i + 1)

\* a faulty variant: no padding to 9 rows
generate_matrix_rows_unpadded(len) == 2 * len

generate_matrix_rows(len) == Max(2 * len, 9)

generate_matrix_from_correspondences(correspondences) ==
    LET matrixes == [i \in 1..Len(correspondences) |->
                        generate_restriction(correspondences[i])]
        rows == generate_matrix_rows(Len(matrixes))
    IN  generate_matrix_loop(zeros(rows, NumCols), matrixes, 0)

---------------------------------------------------------------------------
(* src/functions.rs: solve                                                 *)
(*                                                                         *)
(* matrix.svd(false, true) is nalgebra's thin SVD: singular_values holds   *)
(* min(M, 9) values in descending order and v_t has min(M, 9) orthonormal  *)
(* rows, row k being a right singular vector for singular_values[k]; an    *)
(* empty matrix makes it panic.  The model computes it exactly where       *)
(* integer arithmetic can: on a matrix whose rows are pairwise orthogonal  *)
(* the nonzero singular values are the norms of the rows, and a row of v_t *)
(* for the singular value s is any unit vector v with A^T A v = s^2 v.     *)
(* A vector stands for its direction (the unit vector v / |v|) and a       *)
(* singular value is kept as its square; where several unit vectors        *)
(* qualify (sign, equal singular values) the choice is left open.          *)

Dot(u, v) ==
    u[1] * v[1] + u[2] * v[2] + u[3] * v[3] + u[4] * v[4] + u[5] * v[5]
    + u[6] * v[6] + u[7] * v[7] + u[8] * v[8] + u[9] * v[9]

Norm2(u) == Dot(u, u)

ZeroRow == [j \in 1..NumCols |-> 0]

UnitRow(k) == [j \in 1..NumCols |-> IF j = k THEN 1 ELSE 0]

Neg(u) == [j \in 1..NumCols |-> -u[j]]

\* A v
MatVec(m, v) == [i \in 1..Len(m) |-> Dot(m[i], v)]

\* entry j of A^T w, summed over the rows from i on
RECURSIVE TransposeMatVecAt(_, _, _, _)
TransposeMatVecAt(m, w, j, i) ==
    IF i > Len(m) THEN 0 ELSE w[i] * m[i][j] + TransposeMatVecAt(m, w, j, i + 1)

\* A^T A v
GramVec(m, v) ==
    LET w == MatVec(m, v)
    IN  [j \in 1..NumCols |-> TransposeMatVecAt(m, w, j, 1)]

PairwiseOrthogonal(m) ==
    \A i, j \in 1..Len(m) : i < j => Dot(m[i], m[j]) = 0

\* the number of rows of v_t and of singular values: DimMinimum<R, C>
svd_dim(m) == Min(nrows(m), NumCols)

\* the k-th largest (k from 1) of the squared norms of the rows, with multiplicity
KthLargestNorm2(m, k) ==
    CHOOSE s \in {Norm2(m[i]) : i \in 1..Len(m)} :
        /\ Cardinality({i \in 1..Len(m) : Norm2(m[i]) > s}) < k
        /\ Cardinality({i \in 1..Len(m) : Norm2(m[i]) >= s}) >= k

\* svd.singular_values, squared, for a matrix of pairwise orthogonal rows
singular_values2(m) == [k \in 1..svd_dim(m) |-> KthLargestNorm2(m, k)]

\* v is a right singular vector of m for the singular value sqrt(s2)
IsRightSingularVector(m, v, s2) ==
    /\ v # ZeroRow
    /\ GramVec(m, v) = [j \in 1..NumCols |-> s2 * v[j]]

\* the directions the model can name: the rows, the axes, and their opposites
Directions(m) ==
    LET base == {m[i] : i \in 1..Len(m)} \cup {UnitRow(k) : k \in 1..NumCols}
    IN  (base \cup {Neg(u) : u \in base}) \ {ZeroRow}

\* a faulty variant: the transposition left out
transpose_omitted(m3) == m3

\* Matrix3::from_vec fills column by column: entry (i, j) is v[i + 3 j]
Matrix3_from_vec(v) ==
    [i \in 1..3 |-> [j \in 1..3 |-> v[(i - 1) + 3 * (j - 1) + 1]]]

transpose(m3) == [i \in 1..3 |-> [j \in 1..3 |-> m3[j][i]]]

\* lines 33-41, given the row of v_t that line 35 selects
solve_pack(v, s2) ==
    [kind |-> "ok",
     matrix |-> transpose(Matrix3_from_vec(v)),
     norm2 |-> Norm2(v),
     value2 |-> s2]

\* the outcomes of solve(m): what it returns, with the row of v_t it selected.
\* The returned matrix is solution.matrix / sqrt(solution.norm2) and the
\* returned value is sqrt(solution.value2).
solve(m) ==
    IF nrows(m) = 0
    THEN {[last_column |-> <<>>, solution |-> [kind |-> "panic"]]}
    ELSE LET n == svd_dim(m) - 1
             exact == PairwiseOrthogonal(m)
             s2 == IF exact THEN singular_values2(m)[n + 1] ELSE 0
             rows == IF exact
                     THEN {v \in Directions(m) : IsRightSingularVector(m, v, s2)}
                     ELSE {}
         IN  IF rows = {}
             THEN {[last_column |-> <<>>, solution |-> [kind |-> "inexact"]]}
             ELSE {[last_column |-> v, solution |-> solve_pack(v, s2)] : v \in rows}

---------------------------------------------------------------------------
(* src/lib.rs                                                              *)

\* a faulty variant: the line loop before the point loop
get_restrictions_lines_first(points, lines) ==
    [i \in 1..Len(lines) |-> LinePair_generate_restriction(lines[i])]
    \o [i \in 1..Len(points) |-> PointPair_generate_restriction(points[i])]

\* HomographyComputation::get_restrictions: the two loops of lines 123-129
get_restrictions(points, lines) ==
    [i \in 1..Len(points) |-> PointPair_generate_restriction(points[i])]
    \o [i \in 1..Len(lines) |-> LinePair_generate_restriction(lines[i])]

\* a faulty variant: both rows of a block written to row 2i
RECURSIVE compute_loop_same_row(_, _, _)
compute_loop_same_row(m, blocks, i) ==
    IF i >= Len(blocks)
    THEN m
    ELSE compute_loop_same_row(
             set_row(set_row(m, i * 2, Row(blocks[i + 1], 0)),
                     i * 2, Row(blocks[i + 1], 1)),
             blocks, i + 1)

\* the loop of lines 177-180, from block i (counted from 0) on
RECURSIVE compute_loop(_, _, _)
compute_loop(m, blocks, i) ==
    IF i >= Len(blocks)
    THEN m
    ELSE compute_loop(
             set_row(set_row(m, i * 2, Row(blocks[i + 1], 0)),
                     i * 2 + 1, Row(blocks[i + 1], 1)),
             blocks, i + 1)

compute_num_rows(len) == len * 2

\* HomographyRestrictions::compute, up to the call of solve: its design matrix
compute_matrix(blocks) ==
    compute_loop(zeros(compute_num_rows(Len(blocks)), NumCols), blocks, 0)

---------------------------------------------------------------------------
(* The caller.  It builds a HomographyComputation, adding correspondences  *)
(* in any order; passes the same correspondences, in the order it added    *)
(* them, to generate_matrix_from_correspondences; then either solves the   *)
(* assembled matrix, or asks the HomographyComputation for its             *)
(* restrictions and computes.  A panic ends the caller.                    *)

NoSolution == [kind |-> "none"]

\* the origin, and the points of the unit tests
PointPairInputs ==
    { PointPair(Point_new(0, 0), Point_new(0, 0)),
      PointPair(Point_new(1, 2), Point_new(3, 4)) }

\* the line at infinity paired with each axis line, the lines of the unit
\* tests, and the line through two points paired with the line at infinity
LinePairInputs ==
    { LinePair(Line_new(0, 0, 1), Line_new(1, 0, 0)),
      LinePair(Line_new(0, 0, 1), Line_new(0, 1, 0)),
      LinePair(Line_new(0, 0, 1), Line_new(0, 0, 1)),
      LinePair(Line_new(1, 2, 3), Line_new(4, 5, 6)),
      LinePair(Line_from_points(Point_new(0, 0), Point_new(-1, 0)),
               Line_new(0, 0, 1)) }

\* HomographyComputation::new
HomographyComputation_new ==
    /\ point_correspondences = <<>>
    /\ line_correspondences = <<>>

Init ==
    /\ pc = "build"
    /\ HomographyComputation_new
    /\ added = <<>>
    /\ restrictions = <<>>
    /\ matrix = <<>>
    /\ assembled = <<>>
    /\ last_column = <<>>
    /\ solution = NoSolution
    /\ pair = <<>>
    /\ restriction = <<>>

add_point_correspondence(p1, p2) ==
    /\ pc = "build"
    /\ Len(added) < MaxN
    /\ point_correspondences' = Append(point_correspondences, PointPair(p1, p2))
    /\ added' = Append(added, PointCorrespondence(PointPair(p1, p2)))
    /\ UNCHANGED <<pc, line_correspondences, restrictions, matrix, assembled,
                   last_column, solution, pair, restriction>>

add_line_correspondence(l1, l2) ==
    /\ pc = "build"
    /\ Len(added) < MaxN
    /\ line_correspondences' = Append(line_correspondences, LinePair(l1, l2))
    /\ added' = Append(added, LineCorrespondence(LinePair(l1, l2)))
    /\ UNCHANGED <<pc, point_correspondences, restrictions, matrix, assembled,
                   last_column, solution, pair, restriction>>

AddPoint == \E pp \in PointPairInputs : add_point_correspondence(pp.p1, pp.p2)

AddLine == \E lp \in LinePairInputs : add_line_correspondence(lp.l1, lp.l2)

\* generate_matrix_from_correspondences on the caller's correspondences
GenerateMatrix ==
    /\ pc = "build"
    /\ assembled' = generate_matrix_from_correspondences(added)
    /\ pc' = "assembled"
    /\ UNCHANGED <<point_correspondences, line_correspondences, added,
                   restrictions, matrix, last_column, solution, pair, restriction>>

\* solve on the assembled matrix
SolveAssembled ==
    /\ pc = "assembled"
    /\ \E out \in solve(assembled) :
          /\ last_column' = out.last_column
          /\ solution' = out.solution
          /\ pc' = IF out.solution.kind = "panic" THEN "panicked" ELSE "solved"
    /\ UNCHANGED <<point_correspondences, line_correspondences, added,
                   restrictions, matrix, assembled, pair, restriction>>

GetRestrictions ==
    /\ pc = "assembled"
    /\ restrictions' = get_restrictions(point_correspondences, line_correspondences)
    /\ pc' = "restricted"
    /\ UNCHANGED <<point_correspondences, line_correspondences, added, matrix,
                   assembled, last_column, solution, pair, restriction>>

\* HomographyRestrictions::compute
Compute ==
    /\ pc = "restricted"
    /\ matrix' = compute_matrix(restrictions)
    /\ \E out \in solve(matrix') :
          /\ last_column' = out.last_column
          /\ solution' = out.solution
          /\ pc' = IF out.solution.kind = "panic" THEN "panicked" ELSE "computed"
    /\ UNCHANGED <<point_correspondences, line_correspondences, added,
                   restrictions, assembled, pair, restriction>>

Next ==
    \/ AddPoint
    \/ AddLine
    \/ GenerateMatrix
    \/ SolveAssembled
    \/ GetRestrictions
    \/ Compute

Spec == Init /\ [][Next]_vars

\* the matrix the last call of solve was given
SolvedMatrix == IF pc = "solved" THEN assembled ELSE matrix

---------------------------------------------------------------------------
(* generate_restriction as a function: applied to every point pair and     *)
(* every line pair with coordinates in -MaxCoord..MaxCoord.                *)

Coord == (-MaxCoord)..MaxCoord

Points == {Point_new(x, y) : x, y \in Coord}

Lines == {Line_new(a, b, c) : a, b, c \in Coord}

RestrictionInputs ==
    {PointCorrespondence(PointPair(p1, p2)) : p1, p2 \in Points}
    \cup {LineCorrespondence(LinePair(l1, l2)) : l1, l2 \in Lines}

InitRestriction ==
    /\ pc = "input"
    /\ pair \in RestrictionInputs
    /\ restriction = <<>>
    /\ HomographyComputation_new
    /\ added = <<>>
    /\ restrictions = <<>>
    /\ matrix = <<>>
    /\ assembled = <<>>
    /\ last_column = <<>>
    /\ solution = NoSolution

GenerateRestriction ==
    /\ pc = "input"
    /\ restriction' = generate_restriction(pair)
    /\ pc' = "generated"
    /\ UNCHANGED <<point_correspondences, line_correspondences, added,
                   restrictions, matrix, assembled, last_column, solution, pair>>

NextRestriction == GenerateRestriction

SpecRestriction == InitRestriction /\ [][NextRestriction]_vars

---------------------------------------------------------------------------
(* solve as a function: applied to every matrix of at most MaxRows rows    *)
(* whose row i is the i-th axis (the axes repeat after the 9th) or twice   *)
(* it, with at most one row zero.  Rows i and i + 9 are parallel where     *)
(* neither is zero: the model does not name the SVD of such a matrix.      *)

AxisRow(i, d) == [j \in 1..NumCols |-> IF j = ((i - 1) % NumCols) + 1 THEN d ELSE 0]

\* row i is d[i] times its axis, but for row z, which is zero
AxisMatrix(len, d, z) ==
    [i \in 1..len |-> AxisRow(i, IF i = z THEN 0 ELSE d[i])]

InitSolve ==
    /\ pc = "solve_input"
    /\ \E len \in 0..MaxRows : \E d \in [1..len -> {1, 2}] : \E z \in 0..len :
          matrix = AxisMatrix(len, d, z)
    /\ last_column = <<>>
    /\ solution = NoSolution
    /\ HomographyComputation_new
    /\ added = <<>>
    /\ restrictions = <<>>
    /\ assembled = <<>>
    /\ pair = <<>>
    /\ restriction = <<>>

Solve ==
    /\ pc = "solve_input"
    /\ \E out \in solve(matrix) :
          /\ last_column' = out.last_column
          /\ solution' = out.solution
          /\ pc' = IF out.solution.kind = "panic" THEN "panicked" ELSE "solve_done"
    /\ UNCHANGED <<point_correspondences, line_correspondences, added,
                   restrictions, matrix, assembled, pair, restriction>>

NextSolve == Solve

SpecSolve == InitSolve /\ [][NextSolve]_vars

---------------------------------------------------------------------------
(* What the claims speak of.                                               *)

\* the row-major vectorisation (h11, h12, h13, h21, ..., h33) of a 3x3 matrix
Vectorise(H) ==
    << H[1][1], H[1][2], H[1][3],
       H[2][1], H[2][2], H[2][3],
       H[3][1], H[3][2], H[3][3] >>

\* H . (x, y, 1)
ApplyToPoint(H, p) == [i \in 1..3 |-> H[i][1] * p.x + H[i][2] * p.y + H[i][3]]

\* H^T . (a, b, c)
TransposeApplyToLine(H, l) ==
    [j \in 1..3 |-> H[1][j] * l.a + H[2][j] * l.b + H[3][j] * l.c]

LineVec(l) == <<l.a, l.b, l.c>>

Scaled(s, v) == [k \in 1..3 |-> s * v[k]]

Identity3 == << <<1, 0, 0>>, <<0, 1, 0>>, <<0, 0, 1>> >>
Shear3 == << <<1, 1, 0>>, <<0, 1, 0>>, <<0, 0, 1>> >>
Rotation3 == << <<0, -1, 0>>, <<1, 0, 0>>, <<0, 0, 1>> >>
Translation3 == << <<1, 0, 1>>, <<0, 1, -1>>, <<0, 0, 1>> >>
Projective3 == << <<1, 0, 0>>, <<0, 1, 0>>, <<1, -1, 1>> >>
General3 == << <<1, 2, 3>>, <<4, 5, 6>>, <<7, 8, 10>> >>
Singular3 == << <<1, 2, 3>>, <<2, 4, 6>>, <<0, 0, 0>> >>

\* the matrix with a single 1, at (i, j): the dot products are linear in H
Elementary3(i, j) ==
    [r \in 1..3 |-> [c \in 1..3 |-> IF r = i /\ c = j THEN 1 ELSE 0]]

\* the 3x3 matrices H the relational claims are checked for
HInputs ==
    {Identity3, Shear3, Rotation3, Translation3, Projective3, General3, Singular3}
    \cup {Elementary3(i, j) : i, j \in 1..3}

NonZeroScales == ((-MaxScale)..MaxScale) \ {0}

AllScales == (-MaxScale)..MaxScale

IsPointCall == pc = "generated" /\ pair.kind = "point"

IsLineCall == pc = "generated" /\ pair.kind = "line"

\* the blocks of the caller's correspondences, in the order it added them
BlocksInCallerOrder == [i \in 1..Len(added) |-> generate_restriction(added[i])]

IsPointC(c) == c.kind = "point"
IsLineC(c) == c.kind = "line"

\* rows 2i, 2i+1 of m are the rows of block i, and the rows from 2N on are zero
AssembledFrom(m, blocks) ==
    /\ \A i \in 0..(Len(blocks) - 1) :
          /\ 2 * i + 1 < nrows(m)
          /\ Row(m, 2 * i) = Row(blocks[i + 1], 0)
          /\ Row(m, 2 * i + 1) = Row(blocks[i + 1], 1)
    /\ \A r \in 0..(nrows(m) - 1) : r >= 2 * Len(blocks) => Row(m, r) = ZeroRow

\* some nonzero vector is mapped to zero by m: m has fewer rows than columns,
\* or one of the directions the model names is a null vector
HasNullDirection(m) ==
    \/ nrows(m) < NumCols
    \/ \E v \in Directions(m) : MatVec(m, v) = [i \in 1..Len(m) |-> 0]

---------------------------------------------------------------------------
(* The claims.                                                             *)

\* C1 (as stated): whenever solve returns, the row it selected is a right
\* singular vector for the returned value, and where the design matrix has a
\* null-space direction (always, with fewer than 9 rows) the selected row is
\* one and the value is 0: the smallest singular value of the 9-column matrix.
C1_SmallestSingularVector ==
    solution.kind = "ok" =>
        /\ IsRightSingularVector(SolvedMatrix, last_column, solution.value2)
        /\ HasNullDirection(SolvedMatrix) =>
              /\ MatVec(SolvedMatrix, last_column) = [i \in 1..Len(SolvedMatrix) |-> 0]
              /\ solution.value2 = 0

\* C2 (as stated): compute on fewer than 4 point correspondences and no line
\* correspondence hands solve a 9-row matrix and returns without panicking.
C2_DegenerateNineRowsNoPanic ==
    (/\ pc \in {"computed", "panicked"}
     /\ Len(line_correspondences) = 0
     /\ Len(point_correspondences) < 4)
    => (nrows(matrix) = 9 /\ solution.kind # "panic")

\* C3 (as stated): get_restrictions returns one block per correspondence, the
\* i-th block being the restriction of the i-th correspondence the caller
\* added, points and lines counted together; compute stacks them in that order.
C3_CallerOrder ==
    pc \in {"restricted", "computed"} =>
        /\ Len(restrictions) = Len(added)
        /\ \A i \in 1..Len(restrictions) :
              restrictions[i] = generate_restriction(added[i])
        /\ pc = "computed" =>
              \A i \in 0..(Len(added) - 1) :
                  /\ Row(matrix, 2 * i) = Row(generate_restriction(added[i + 1]), 0)
                  /\ Row(matrix, 2 * i + 1) = Row(generate_restriction(added[i + 1]), 1)

\* C3 (amended): get_restrictions returns one block per correspondence: the
\* blocks of the point correspondences in the order they were added, then
\* those of the line correspondences in the order they were added; block i
\* is rows 2i and 2i+1 of the matrix compute builds.
C3_PointsThenLines ==
    pc \in {"restricted", "computed"} =>
        LET points == SelectSeq(added, IsPointC)
            lines == SelectSeq(added, IsLineC)
            grouped == points \o lines
        IN  /\ Len(restrictions) = Len(added)
            /\ \A i \in 1..Len(restrictions) :
                  restrictions[i] = generate_restriction(grouped[i])
            /\ pc = "computed" =>
                  \A i \in 0..(Len(added) - 1) :
                      /\ Row(matrix, 2 * i) = Row(generate_restriction(grouped[i + 1]), 0)
                      /\ Row(matrix, 2 * i + 1) = Row(generate_restriction(grouped[i + 1]), 1)

\* C3 witness: restrictions were computed after a line was added before a point.
C3_Witness ==
    /\ pc = "computed"
    /\ Len(added) >= 3
    /\ added[1].kind = "line"
    /\ added[2].kind = "point"
    /\ added[3].kind = "line"
    /\ Len(restrictions) = Len(added)

\* C4 (as stated): for a line pair with l2 = s H^T l1, s # 0, both rows of the
\* restriction have zero dot product with the vectorisation of H.
C4_L2IsHtL1 ==
    IsLineCall =>
        \A H \in HInputs : \A s \in NonZeroScales :
            LineVec(pair.pair.l2) = Scaled(s, TransposeApplyToLine(H, pair.pair.l1))
            => /\ Dot(Row(restriction, 0), Vectorise(H)) = 0
               /\ Dot(Row(restriction, 1), Vectorise(H)) = 0

\* C4 (amended): for a line pair with l1 = s H^T l2, s # 0, both rows of the
\* restriction have zero dot product with the vectorisation of H: the block
\* encodes that l1 and H^T l2 are parallel.
C4_L1IsHtL2 ==
    IsLineCall =>
        \A H \in HInputs : \A s \in NonZeroScales :
            LineVec(pair.pair.l1) = Scaled(s, TransposeApplyToLine(H, pair.pair.l2))
            => /\ Dot(Row(restriction, 0), Vectorise(H)) = 0
               /\ Dot(Row(restriction, 1), Vectorise(H)) = 0

\* C4 witness: the restriction of a line pair with l1 = -H^T l2 for the shear,
\* neither line nor row being zero.
C4_Witness ==
    /\ IsLineCall
    /\ pair.pair.l2 = Line_new(1, -1, 1)
    /\ LineVec(pair.pair.l1) = Scaled(-1, TransposeApplyToLine(Shear3, pair.pair.l2))
    /\ pair.pair.l1 # pair.pair.l2
    /\ Row(restriction, 0) # ZeroRow
    /\ Row(restriction, 1) # ZeroRow

\* C5: generate_matrix_from_correspondences on N correspondences returns a
\* matrix of max(2N, 9) rows, each of 9 entries.
C5_MatrixShape ==
    pc # "build" =>
        /\ nrows(assembled) = (IF 2 * Len(added) > 9 THEN 2 * Len(added) ELSE 9)
        /\ \A r \in 1..nrows(assembled) : Len(assembled[r]) = 9

\* C5 witness: a mix of more than 4 point and line pairs was assembled.
C5_Witness ==
    /\ pc = "assembled"
    /\ Len(added) >= 5
    /\ \E i \in 1..Len(added) : added[i].kind = "point"
    /\ \E i \in 1..Len(added) : added[i].kind = "line"
    /\ nrows(assembled) = 2 * Len(added)

\* C6: in the matrix of generate_matrix_from_correspondences and in the one
\* compute builds, rows 2i and 2i+1 are rows 0 and 1 of the i-th block, and
\* every row from 2N on is zero.
C6_RowsInBlockOrder ==
    /\ pc # "build" => AssembledFrom(assembled, BlocksInCallerOrder)
    /\ pc = "computed" => AssembledFrom(matrix, restrictions)

\* C6 witness: three correspondences of both kinds went through both
\* assemblers; the first left padding rows after 6 nonzero rows.
C6_Witness ==
    /\ pc = "computed"
    /\ Len(added) = 3
    /\ Len(point_correspondences) = 1
    /\ nrows(assembled) = 9
    /\ nrows(matrix) = 6
    /\ \A r \in 0..5 : Row(assembled, r) # ZeroRow /\ Row(matrix, r) # ZeroRow
    /\ Row(assembled, 8) = ZeroRow

\* C7: generate_restriction returns the blocks of the specification, entry by
\* entry: for the point pair ((x, y), (x', y')) and the line pair
\* ((a, b, c), (a', b', c')).
C7_SpecFormulas ==
    /\ IsPointCall =>
          LET x == pair.pair.p1.x
              y == pair.pair.p1.y
              xp == pair.pair.p2.x
              yp == pair.pair.p2.y
          IN  /\ Row(restriction, 0) = <<0, 0, 0, -x, -y, -1, x * yp, y * yp, yp>>
              /\ Row(restriction, 1) = <<x, y, 1, 0, 0, 0, -(x * xp), -(y * xp), -xp>>
              /\ Len(restriction) = 2
    /\ IsLineCall =>
          LET a == pair.pair.l1.a
              b == pair.pair.l1.b
              c == pair.pair.l1.c
              ap == pair.pair.l2.a
              bp == pair.pair.l2.b
              cp == pair.pair.l2.c
          IN  /\ Row(restriction, 0) =
                    <<0, -(c * ap), b * ap, 0, -(c * bp), b * bp, 0, -(c * cp), b * cp>>
              /\ Row(restriction, 1) =
                    <<c * ap, 0, -(a * ap), c * bp, 0, -(a * bp), c * cp, 0, -(a * cp)>>
              /\ Len(restriction) = 2

\* C7 witness: the restriction of a line pair none of whose coefficients is 0.
C7_Witness ==
    /\ IsLineCall
    /\ pair.pair.l1 = Line_new(1, -1, 1)
    /\ pair.pair.l2 = Line_new(-1, 1, 1)
    /\ \A k \in {2, 3, 5, 6, 8, 9} : Row(restriction, 0)[k] # 0

\* C8: for a point pair (p1, p2) and any H, the dot products of the rows of
\* the restriction with the vectorisation of H are the first two components
\* of (x', y', 1) x (H p1); both are 0 when H p1 = w (x', y', 1).
C8_PointCrossProduct ==
    IsPointCall =>
        \A H \in HInputs :
            LET q == ApplyToPoint(H, pair.pair.p1)
                xp == pair.pair.p2.x
                yp == pair.pair.p2.y
                d0 == Dot(Row(restriction, 0), Vectorise(H))
                d1 == Dot(Row(restriction, 1), Vectorise(H))
            IN  /\ d0 = yp * q[3] - 1 * q[2]
                /\ d1 = 1 * q[1] - xp * q[3]
                /\ (\E w \in AllScales : q = Scaled(w, <<xp, yp, 1>>))
                   => (d0 = 0 /\ d1 = 0)

\* C8 witness: the restriction of a point pair that the rotation maps exactly,
\* p2 = Rotation3 p1, with no coordinate 0.
C8_Witness ==
    /\ IsPointCall
    /\ pair.pair.p1 = Point_new(1, -1)
    /\ pair.pair.p2 = Point_new(1, 1)
    /\ ApplyToPoint(Rotation3, pair.pair.p1) = <<1, 1, 1>>
    /\ Dot(Row(restriction, 0), Vectorise(Rotation3)) = 0
    /\ Dot(Row(restriction, 1), Vectorise(General3)) # 0

\* C10: solve packs the selected row v of v_t row by row:
\* matrix(i, j) = v[3 i + j] for i, j in 0..2.
C10_RowMajorPacking ==
    solution.kind = "ok" =>
        \A i, j \in 0..2 : solution.matrix[i + 1][j + 1] = last_column[3 * i + j + 1]

\* C10 witness: solve returned a matrix that differs from its transpose.
C10_Witness ==
    /\ pc = "solve_done"
    /\ solution.kind = "ok"
    /\ nrows(matrix) >= 2
    /\ \E i, j \in 1..3 : solution.matrix[i][j] # solution.matrix[j][i]

====
